---- MODULE Spec2Model ----
(***************************************************************************)
(* Model of src/main.py: the tile projection (get_tiles_in_bbox), the two  *)
(* fetchers (get_tile_image, get_tile_image_no_cache), the per-tile unit   *)
(* of work (process_and_composite_tile) and the module-level coordinator   *)
(* (tile list, canvas allocation, thread pool, collection loop, save).     *)
(***************************************************************************)
EXTENDS Integers, Sequences, FiniteSets, TLC

VARIABLES
    bbox,            \* <<min_lat, max_lat, min_lon, max_lon>> (main.py:121-130)
    zoom,            \* main.py:134
    cpc,             \* position of the module-level code (the coordinator)
    tiles,           \* main.py:148, the list returned by get_tiles_in_bbox
    final_image,     \* main.py:163, the canvas
    custom_found,    \* main.py:164
    processed_count, \* main.py:165
    submitted,       \* number of tasks handed to executor.submit (main.py:170)
    collected,       \* futures already yielded by as_completed (main.py:171)
    saves,           \* number of final_image.save calls so far (main.py:186)
    pc,              \* per task: position of its unit of work
    resp,            \* per task: the response held by the running fetcher
    bg,              \* per task: the local bg of process_and_composite_tile
    future,          \* per task: outcome stored in its Future
    cache,           \* the files under CACHE_DIR: path -> bytes
    osmGets,         \* per task: GETs issued to its background URL (saturating)
    wpGets,          \* per task: GETs issued to its overlay URL (saturating)
    calls            \* SpecFetch only: outcomes of the calls made so far

vars == <<bbox, zoom, cpc, tiles, final_image, custom_found, processed_count,
          submitted, collected, saves, pc, resp, bg, future, cache,
          osmGets, wpGets, calls>>

coordVars == <<cpc, tiles, final_image, custom_found, processed_count,
               submitted, collected, saves>>
unitVars == <<pc, resp, bg, future, cache, osmGets, wpGets>>

-----------------------------------------------------------------------------
(* Bounds of the model.                                                    *)

\* zoom levels 0..MaxZoom are explored
MaxZoom == 2
\* The GET counters saturate: a counter at its cap stands for "cap or more".
\* A caller or a run of at most two tasks counts up to MaxGets, the tasks
\* of a larger run up to RunGets.
MaxGets == 2
RunGets == 1
\* SpecFetch: number of get_tile_image calls the caller makes in sequence
MaxCalls == 2

-----------------------------------------------------------------------------
(* Projection: lat_lon_to_tile and get_tiles_in_bbox.                      *)
(* Tile coordinates are floats in the source; here they are fixed-point    *)
(* integers, FP units per tile.                                            *)

FP == 36000

\* Latitudes and longitudes (degrees) the bounding boxes are drawn from.
\* 89 and -89 lie beyond the Mercator square, 270 and -270 beyond the
\* antimeridian, -90 is the south pole.
Lats == {-90, -89, -41, 0, 41, 67, 85, 89}
Lons == {-270, -180, -90, 0, 45, 180, 270}

\* math.log raises ValueError("math domain error") when
\* tan(lat) + 1/cos(lat) is not positive: at the south pole, where the float
\* sum is 0.0, and at every latitude outside [-90, 90]
LogDomainError(lat) == lat <= -90 \/ lat > 90

\* (1 - log(tan(lat) + 1/cos(lat)) / pi) / 2 at the latitudes of Lats, in
\* FP units (the floor of the float the source computes)
MercatorY(lat) ==
    CASE lat = -89 -> 45165
      [] lat = -41 -> 22502
      [] lat = 0   -> 18000
      [] lat = 41  -> 13497
      [] lat = 67  -> 8876
      [] lat = 85  -> 58
      [] lat = 89  -> -9166
      [] OTHER     -> 0   \* no other latitude is used

RECURSIVE Pow2(_)
Pow2(k) == IF k = 0 THEN 1 ELSE 2 * Pow2(k - 1)

\* lat_lon_to_tile: x and y in FP units, or raised
lat_lon_to_tile(lat, lon, z) ==
    LET n == Pow2(z)
    IN  IF LogDomainError(lat) THEN [raised |-> TRUE, x |-> 0, y |-> 0]
        ELSE [raised |-> FALSE,
              x |-> ((lon + 180) * n * FP) \div 360,
              y |-> MercatorY(lat) * n]

floor(v) == v \div FP
ceil(v) == -((-v) \div FP)
Min2(a, b) == IF a < b THEN a ELSE b
Max2(a, b) == IF a > b THEN a ELSE b
MinOf(S) == CHOOSE m \in S : \A e \in S : m <= e
MaxOf(S) == CHOOSE m \in S : \A e \in S : m >= e

\* main.py:39-42
clamp(v, n) == Max2(0, Min2(v, n - 1))

\* main.py:44, the x-major list of the rectangle
rect_list(start_x, end_x, start_y, end_y) ==
    LET h == end_y - start_y + 1
        w == end_x - start_x + 1
    IN  IF w <= 0 \/ h <= 0 THEN << >>
        ELSE [i \in 1..(w * h) |->
                <<start_x + ((i - 1) \div h), start_y + ((i - 1) % h)>>]

\* main.py:19-22
normalize(lo, hi) == IF lo > hi THEN <<hi, lo>> ELSE <<lo, hi>>

\* get_tiles_in_bbox taking the range from the NW and SE corners of the
\* arguments as given, without putting them in order
get_tiles_in_bbox_NwSe(min_lat, max_lat, min_lon, max_lon, z) ==
    LET nw == lat_lon_to_tile(max_lat, min_lon, z)
        se == lat_lon_to_tile(min_lat, max_lon, z)
        n == Pow2(z)
    IN  IF nw.raised \/ se.raised THEN [raised |-> TRUE, list |-> << >>]
        ELSE [raised |-> FALSE,
              list |-> rect_list(clamp(floor(nw.x), n), clamp(ceil(se.x), n),
                                 clamp(floor(nw.y), n), clamp(ceil(se.y), n))]

\* get_tiles_in_bbox: the tile list, or raised when a corner's projection
\* raises ValueError
get_tiles_in_bbox(min_lat, max_lat, min_lon, max_lon, z) ==
    LET lat == normalize(min_lat, max_lat)
        lon == normalize(min_lon, max_lon)
        coords == { lat_lon_to_tile(lat[2], lon[1], z),
                    lat_lon_to_tile(lat[2], lon[2], z),
                    lat_lon_to_tile(lat[1], lon[1], z),
                    lat_lon_to_tile(lat[1], lon[2], z) }
    IN  IF \E c \in coords : c.raised THEN [raised |-> TRUE, list |-> << >>]
        ELSE LET x_vals == { c.x : c \in coords }
                 y_vals == { c.y : c \in coords }
                 n == Pow2(z)
                 start_x == clamp(floor(MinOf(x_vals)), n)
                 end_x == clamp(ceil(MaxOf(x_vals)), n)
                 start_y == clamp(floor(MinOf(y_vals)), n)
                 end_y == clamp(ceil(MaxOf(y_vals)), n)
             IN  [raised |-> FALSE,
                  list |-> rect_list(start_x, end_x, start_y, end_y)]

-----------------------------------------------------------------------------
(* Bytes, images and the cache directory.                                  *)

TILE_SIZE == 1000
\* size of the thread pool (10 in the source), scaled to the tile counts here
MAX_WORKERS == 2

\* What the background server may send with a 200, what an earlier run may
\* have left in the cache, and what the overlay server may send with a 200.
\* "junk" is a body that is not an image.
OsmBodies == {"osm_new", "junk"}
CachedBodies == {"osm_old", "junk"}
WpBodies == {"wp_rgba", "wp_la", "wp_p_trns", "wp_p", "wp_rgb", "junk"}
\* outcomes of a GET other than status 200: 429, another status, and
\* requests.exceptions.RequestException (status 0 stands for no response)
FailStatuses == {429, 500, 0}

NoResp == [status |-> -1, content |-> ""]
NoImage == [ok |-> FALSE, data |-> "None", mode |-> "",
            transparency |-> FALSE, size |-> 0]
Raised == [ok |-> FALSE, data |-> "UnidentifiedImageError", mode |-> "",
           transparency |-> FALSE, size |-> 0]

ModeOf(bytes) ==
    CASE bytes = "wp_rgba" -> "RGBA"
      [] bytes = "wp_la" -> "LA"
      [] bytes = "wp_rgb" -> "RGB"
      [] OTHER -> "P"

\* Image.open: the decoded image, or Raised for bytes that are no image
ImageOpen(bytes) ==
    IF bytes = "junk" THEN Raised
    ELSE [ok |-> TRUE, data |-> bytes, mode |-> ModeOf(bytes),
          transparency |-> bytes = "wp_p_trns", size |-> 256]

\* osm_cache_path without the y of the tile in the file name
osm_cache_path_NoY(z, x, y) == <<z, "osm", x, 0>>

\* main.py:93, Path(CACHE_DIR) / str(zoom) / "osm" / str(x) / f"{y}.png"
osm_cache_path(z, x, y) == <<z, "osm", x, y>>

exists(path) == path \in DOMAIN cache

\* open(cache_path, 'wb').write(content)
write_file(files, path, content) ==
    [p \in DOMAIN files \cup {path} |-> IF p = path THEN content ELSE files[p]]

Tasks == DOMAIN pc
TileX(i) == tiles[i][1]
TileY(i) == tiles[i][2]
PathOf(i) == osm_cache_path(zoom, TileX(i), TileY(i))
GetCap == IF Len(tiles) <= 2 THEN MaxGets ELSE RunGets
Bump(c) == IF c < GetCap THEN c + 1 ELSE c

UnitUnchanged == UNCHANGED <<bbox, zoom, coordVars, calls>>

-----------------------------------------------------------------------------
(* get_tile_image (main.py:46-69), one task's call of it.                  *)

\* BgCacheHit with the existing file ignored: the call goes on to download
BgCacheHit_Refetch(i) ==
    /\ pc[i] = "bg_exists"
    /\ exists(PathOf(i))
    /\ pc' = [pc EXCEPT ![i] = "bg_get"]
    /\ UNCHANGED <<resp, bg, future, cache, osmGets, wpGets>>
    /\ UnitUnchanged

\* main.py:48-50: the file exists; it is opened and returned, or Image.open
\* raises on it
BgCacheHit(i) ==
    /\ pc[i] = "bg_exists"
    /\ exists(PathOf(i))
    /\ LET img == ImageOpen(cache[PathOf(i)])
       IN  /\ bg' = [bg EXCEPT ![i] = img]
           /\ pc' = [pc EXCEPT ![i] = IF img.ok THEN "bg_returned" ELSE "bg_raised"]
    /\ UNCHANGED <<resp, future, cache, osmGets, wpGets>>
    /\ UnitUnchanged

\* main.py:48, 52: no file, enter the retry loop
BgCacheMiss(i) ==
    /\ pc[i] = "bg_exists"
    /\ ~exists(PathOf(i))
    /\ pc' = [pc EXCEPT ![i] = "bg_get"]
    /\ UNCHANGED <<resp, bg, future, cache, osmGets, wpGets>>
    /\ UnitUnchanged

\* BgGet200 without the write of the body to the cache path
BgGet200_NoWrite(i) ==
    /\ pc[i] = "bg_get"
    /\ \E body \in OsmBodies :
         resp' = [resp EXCEPT ![i] = [status |-> 200, content |-> body]]
    /\ osmGets' = [osmGets EXCEPT ![i] = Bump(@)]
    /\ pc' = [pc EXCEPT ![i] = "bg_decode"]
    /\ UNCHANGED <<bg, future, cache, wpGets>>
    /\ UnitUnchanged

\* BgGet200 with the body decoded before it is written: a body that is no
\* image raises before the file is created
BgGet200_DecodeFirst(i) ==
    /\ pc[i] = "bg_get"
    /\ \E body \in OsmBodies :
         /\ resp' = [resp EXCEPT ![i] = [status |-> 200, content |-> body]]
         /\ cache' = IF ImageOpen(body).ok
                     THEN write_file(cache, PathOf(i), body) ELSE cache
    /\ osmGets' = [osmGets EXCEPT ![i] = Bump(@)]
    /\ pc' = [pc EXCEPT ![i] = "bg_decode"]
    /\ UNCHANGED <<bg, future, wpGets>>
    /\ UnitUnchanged

\* main.py:54-59: a GET answered 200; the body is written to the cache path
BgGet200(i) ==
    /\ pc[i] = "bg_get"
    /\ \E body \in OsmBodies :
         /\ resp' = [resp EXCEPT ![i] = [status |-> 200, content |-> body]]
         /\ cache' = write_file(cache, PathOf(i), body)
    /\ osmGets' = [osmGets EXCEPT ![i] = Bump(@)]
    /\ pc' = [pc EXCEPT ![i] = "bg_decode"]
    /\ UNCHANGED <<bg, future, wpGets>>
    /\ UnitUnchanged

\* main.py:60: Image.open(BytesIO(resp.content)) is returned, or raises
BgDecode(i) ==
    /\ pc[i] = "bg_decode"
    /\ LET img == ImageOpen(resp[i].content)
       IN  /\ bg' = [bg EXCEPT ![i] = img]
           /\ pc' = [pc EXCEPT ![i] = IF img.ok THEN "bg_returned" ELSE "bg_raised"]
    /\ UNCHANGED <<resp, future, cache, osmGets, wpGets>>
    /\ UnitUnchanged

\* BgGetFail with the RequestException not caught: it reaches the caller
BgGetFail_Uncaught(i) ==
    /\ pc[i] = "bg_get"
    /\ \E st \in FailStatuses :
         /\ resp' = [resp EXCEPT ![i] = [status |-> st, content |-> ""]]
         /\ pc' = [pc EXCEPT ![i] = IF st = 0 THEN "bg_raised" ELSE "bg_sleep"]
         /\ bg' = [bg EXCEPT ![i] = IF st = 0 THEN Raised ELSE @]
    /\ osmGets' = [osmGets EXCEPT ![i] = Bump(@)]
    /\ UNCHANGED <<future, cache, wpGets>>
    /\ UnitUnchanged

\* BgGetFail with the fetcher giving up: after a failed GET it returns None
BgGetFail_GiveUp(i) ==
    /\ pc[i] = "bg_get"
    /\ \E st \in FailStatuses :
         resp' = [resp EXCEPT ![i] = [status |-> st, content |-> ""]]
    /\ osmGets' = [osmGets EXCEPT ![i] = Bump(@)]
    /\ bg' = [bg EXCEPT ![i] = NoImage]
    /\ pc' = [pc EXCEPT ![i] = "bg_returned"]
    /\ UNCHANGED <<future, cache, wpGets>>
    /\ UnitUnchanged

\* main.py:54, 61-69: a GET answered 429 or another status, or ended by a
\* RequestException; the loop goes to time.sleep(delay)
BgGetFail(i) ==
    /\ pc[i] = "bg_get"
    /\ \E st \in FailStatuses :
         resp' = [resp EXCEPT ![i] = [status |-> st, content |-> ""]]
    /\ osmGets' = [osmGets EXCEPT ![i] = Bump(@)]
    /\ pc' = [pc EXCEPT ![i] = "bg_sleep"]
    /\ UNCHANGED <<bg, future, cache, wpGets>>
    /\ UnitUnchanged

\* main.py:63, 66, 69 then 52: the sleep ends and the loop starts over
BgWake(i) ==
    /\ pc[i] = "bg_sleep"
    /\ pc' = [pc EXCEPT ![i] = "bg_get"]
    /\ resp' = [resp EXCEPT ![i] = NoResp]
    /\ UNCHANGED <<bg, future, cache, osmGets, wpGets>>
    /\ UnitUnchanged

-----------------------------------------------------------------------------
(* process_and_composite_tile (main.py:89-118) around the two fetchers.    *)

ExceptionOutcome(i) ==
    [kind |-> "exception", x |-> TileX(i), y |-> TileY(i),
     img |-> [base |-> "", over |-> "", size |-> 0], custom_used |-> FALSE]

\* main.py:96-99
convert_bg(img) ==
    IF img # NoImage
    THEN [ok |-> TRUE, data |-> img.data, mode |-> "RGB",
          transparency |-> FALSE, size |-> TILE_SIZE]
    ELSE [ok |-> TRUE, data |-> "gray", mode |-> "RGB",
          transparency |-> FALSE, size |-> TILE_SIZE]

\* composite with every palette overlay taken as carrying transparency
composite_AnyPalette(i, bgimg, overlay) ==
    LET used == /\ overlay # NoImage
                /\ overlay.mode \in {"RGBA", "LA", "P"}
    IN  [kind |-> "result", x |-> TileX(i), y |-> TileY(i),
         img |-> [base |-> bgimg.data,
                  over |-> IF overlay # NoImage THEN overlay.data ELSE "",
                  size |-> bgimg.size],
         custom_used |-> used]

\* main.py:106-118
composite(i, bgimg, overlay) ==
    LET used == /\ overlay # NoImage
                /\ \/ overlay.mode \in {"RGBA", "LA"}
                   \/ overlay.mode = "P" /\ overlay.transparency
    IN  [kind |-> "result", x |-> TileX(i), y |-> TileY(i),
         img |-> [base |-> bgimg.data,
                  over |-> IF overlay # NoImage THEN overlay.data ELSE "",
                  size |-> bgimg.size],
         custom_used |-> used]

\* main.py:95-99: get_tile_image has returned and bg is converted, or it has
\* raised and the exception ends the unit
AfterBackground(i) ==
    /\ cpc \in {"dispatch", "collect"}
    /\ pc[i] \in {"bg_returned", "bg_raised"}
    /\ IF pc[i] = "bg_returned"
       THEN /\ bg' = [bg EXCEPT ![i] = convert_bg(@)]
            /\ pc' = [pc EXCEPT ![i] = "ov_get"]
            /\ UNCHANGED future
       ELSE /\ future' = [future EXCEPT ![i] = ExceptionOutcome(i)]
            /\ pc' = [pc EXCEPT ![i] = "finished"]
            /\ bg' = [bg EXCEPT ![i] = NoImage]
    /\ resp' = [resp EXCEPT ![i] = NoResp]
    /\ UNCHANGED <<cache, osmGets, wpGets>>
    /\ UnitUnchanged

\* OvGet200 with the body also stored under the cache directory
OvGet200_Cached(i) ==
    /\ pc[i] = "ov_get"
    /\ \E body \in WpBodies :
         /\ resp' = [resp EXCEPT ![i] = [status |-> 200, content |-> body]]
         /\ cache' = write_file(cache, <<zoom, "wplace", TileX(i), TileY(i)>>, body)
         /\ future' = [future EXCEPT ![i] =
                IF ImageOpen(body).ok
                THEN composite(i, bg[i], ImageOpen(body))
                ELSE ExceptionOutcome(i)]
    /\ wpGets' = [wpGets EXCEPT ![i] = Bump(@)]
    /\ pc' = [pc EXCEPT ![i] = "finished"]
    /\ bg' = [bg EXCEPT ![i] = NoImage]
    /\ UNCHANGED osmGets
    /\ UnitUnchanged

\* OvGet200 with the worker pasting its tile into the shared canvas itself
OvGet200_WorkerPastes(i) ==
    /\ pc[i] = "ov_get"
    /\ \E body \in WpBodies :
         /\ resp' = [resp EXCEPT ![i] = [status |-> 200, content |-> body]]
         /\ future' = [future EXCEPT ![i] =
                IF ImageOpen(body).ok
                THEN composite(i, bg[i], ImageOpen(body))
                ELSE ExceptionOutcome(i)]
         /\ final_image' =
                IF ImageOpen(body).ok
                THEN [final_image EXCEPT !.px =
                        [o \in DOMAIN final_image.px \cup {<<TileX(i), TileY(i)>>} |->
                           IF o = <<TileX(i), TileY(i)>>
                           THEN composite(i, bg[i], ImageOpen(body)).img
                           ELSE final_image.px[o]]]
                ELSE final_image
    /\ wpGets' = [wpGets EXCEPT ![i] = Bump(@)]
    /\ pc' = [pc EXCEPT ![i] = "finished"]
    /\ bg' = [bg EXCEPT ![i] = NoImage]
    /\ UNCHANGED <<cache, osmGets>>
    /\ UNCHANGED <<bbox, zoom, calls, cpc, tiles, custom_found,
                   processed_count, submitted, collected, saves>>

\* main.py:75-78 and 106-118: a GET answered 200; the body is opened and
\* composited over bg, or Image.open raises
OvGet200(i) ==
    /\ pc[i] = "ov_get"
    /\ \E body \in WpBodies :
         /\ resp' = [resp EXCEPT ![i] = [status |-> 200, content |-> body]]
         /\ future' = [future EXCEPT ![i] =
                IF ImageOpen(body).ok
                THEN composite(i, bg[i], ImageOpen(body))
                ELSE ExceptionOutcome(i)]
    /\ wpGets' = [wpGets EXCEPT ![i] = Bump(@)]
    /\ pc' = [pc EXCEPT ![i] = "finished"]
    /\ bg' = [bg EXCEPT ![i] = NoImage]
    /\ UNCHANGED <<cache, osmGets>>
    /\ UnitUnchanged

\* OvGetFail with the fetcher giving up: after a failed GET it returns None
\* and the unit goes on without an overlay
OvGetFail_GiveUp(i) ==
    /\ pc[i] = "ov_get"
    /\ \E st \in FailStatuses :
         resp' = [resp EXCEPT ![i] = [status |-> st, content |-> ""]]
    /\ wpGets' = [wpGets EXCEPT ![i] = Bump(@)]
    /\ future' = [future EXCEPT ![i] = composite(i, bg[i], NoImage)]
    /\ pc' = [pc EXCEPT ![i] = "finished"]
    /\ bg' = [bg EXCEPT ![i] = NoImage]
    /\ UNCHANGED <<cache, osmGets>>
    /\ UnitUnchanged

\* main.py:75, 79-87
OvGetFail(i) ==
    /\ pc[i] = "ov_get"
    /\ \E st \in FailStatuses :
         resp' = [resp EXCEPT ![i] = [status |-> st, content |-> ""]]
    /\ wpGets' = [wpGets EXCEPT ![i] = Bump(@)]
    /\ pc' = [pc EXCEPT ![i] = "ov_sleep"]
    /\ UNCHANGED <<bg, future, cache, osmGets>>
    /\ UnitUnchanged

\* main.py:81, 84, 87 then 73
OvWake(i) ==
    /\ pc[i] = "ov_sleep"
    /\ pc' = [pc EXCEPT ![i] = "ov_get"]
    /\ resp' = [resp EXCEPT ![i] = NoResp]
    /\ UNCHANGED <<bg, future, cache, osmGets, wpGets>>
    /\ UnitUnchanged

-----------------------------------------------------------------------------
(* The module-level code (main.py:148-188): the coordinator.               *)

NoFiles == [p \in {} |-> ""]
NoPixels == [o \in {} |-> [base |-> "", over |-> "", size |-> 0]]
NoCanvas == [size |-> <<0, 0>>, px |-> NoPixels]
Pending(i) ==
    [kind |-> "pending", x |-> 0, y |-> 0,
     img |-> [base |-> "", over |-> "", size |-> 0], custom_used |-> FALSE]

\* main.py:154-157
min_x == MinOf({ tiles[i][1] : i \in DOMAIN tiles })
max_x == MaxOf({ tiles[i][1] : i \in DOMAIN tiles })
min_y == MinOf({ tiles[i][2] : i \in DOMAIN tiles })
max_y == MaxOf({ tiles[i][2] : i \in DOMAIN tiles })
\* main.py:159-160
cols == max_x - min_x + 1
rows == max_y - min_y + 1

\* paste_offset from the tile's absolute coordinates
paste_offset_Absolute(x, y) == <<x * TILE_SIZE, y * TILE_SIZE>>

\* main.py:178, the box argument of final_image.paste
paste_offset(x, y) == <<(x - min_x) * TILE_SIZE, (y - min_y) * TILE_SIZE>>

\* Image.paste: the pixels of img replace the canvas from offset on
paste(image, img, offset) ==
    [image EXCEPT !.px = [o \in DOMAIN image.px \cup {offset} |->
                             IF o = offset THEN img ELSE image.px[o]]]

\* main.py:148-149: the tile list is computed; a ValueError is not caught
\* and ends the process
ComputeTiles ==
    /\ cpc = "start"
    /\ LET r == get_tiles_in_bbox(bbox[1], bbox[2], bbox[3], bbox[4], zoom)
       IN  /\ tiles' = r.list
           /\ cpc' = IF r.raised THEN "crashed" ELSE "computed"
    /\ UNCHANGED <<bbox, zoom, final_image, custom_found, processed_count,
                   submitted, collected, saves, unitVars, calls>>

\* main.py:151-167: SystemExit on an empty list, else the canvas, the
\* counters and the task list
Allocate ==
    /\ cpc = "computed"
    /\ IF tiles = << >>
       THEN /\ cpc' = "aborted"
            /\ UNCHANGED <<final_image, custom_found, processed_count, unitVars>>
       ELSE /\ cpc' = "dispatch"
            /\ final_image' = [size |-> <<cols * TILE_SIZE, rows * TILE_SIZE>>,
                               px |-> NoPixels]
            /\ custom_found' = 0
            /\ processed_count' = 0
            /\ pc' = [i \in DOMAIN tiles |-> "new"]
            /\ resp' = [i \in DOMAIN tiles |-> NoResp]
            /\ bg' = [i \in DOMAIN tiles |-> NoImage]
            /\ future' = [i \in DOMAIN tiles |-> Pending(i)]
            /\ osmGets' = [i \in DOMAIN tiles |-> 0]
            /\ wpGets' = [i \in DOMAIN tiles |-> 0]
            /\ UNCHANGED cache
    /\ UNCHANGED <<bbox, zoom, tiles, submitted, collected, saves, calls>>

\* main.py:170: executor.submit for the next task of the list; after the
\* last one the coordinator enters as_completed
Submit ==
    /\ cpc = "dispatch"
    /\ submitted < Len(tiles)
    /\ submitted' = submitted + 1
    /\ pc' = [pc EXCEPT ![submitted + 1] = "queued"]
    /\ cpc' = IF submitted + 1 = Len(tiles) THEN "collect" ELSE "dispatch"
    /\ UNCHANGED <<bbox, zoom, tiles, final_image, custom_found,
                   processed_count, collected, saves, resp, bg, future, cache,
                   osmGets, wpGets, calls>>

Running == { i \in Tasks : pc[i] \notin {"new", "queued", "finished"} }

\* Start without the pool's limit: a thread per submitted task
Start_NoLimit(i) ==
    /\ pc[i] = "queued"
    /\ \A j \in Tasks : j < i => pc[j] # "queued"
    /\ pc' = [pc EXCEPT ![i] = "bg_exists"]
    /\ UNCHANGED <<resp, bg, future, cache, osmGets, wpGets>>
    /\ UnitUnchanged

\* ThreadPoolExecutor: a free worker takes the oldest queued task and
\* enters process_and_composite_tile (main.py:89-95)
Start(i) ==
    /\ pc[i] = "queued"
    /\ \A j \in Tasks : j < i => pc[j] # "queued"
    /\ Cardinality(Running) < MAX_WORKERS
    /\ pc' = [pc EXCEPT ![i] = "bg_exists"]
    /\ UNCHANGED <<resp, bg, future, cache, osmGets, wpGets>>
    /\ UnitUnchanged

\* Collect without the except clause: the exception of future.result() ends
\* the process
Collect_NoCatch(i) ==
    /\ cpc = "collect"
    /\ pc[i] = "finished"
    /\ i \notin collected
    /\ collected' = collected \cup {i}
    /\ processed_count' = processed_count + 1
    /\ IF future[i].kind = "result"
       THEN /\ custom_found' = IF future[i].custom_used
                               THEN custom_found + 1 ELSE custom_found
            /\ final_image' = paste(final_image, future[i].img,
                                    paste_offset(future[i].x, future[i].y))
            /\ UNCHANGED cpc
       ELSE /\ cpc' = "crashed"
            /\ UNCHANGED <<custom_found, final_image>>
    /\ UNCHANGED <<bbox, zoom, tiles, submitted, saves, unitVars, calls>>

\* Collect with the tile pasted at the place of its arrival: the k-th result
\* collected goes to the k-th square of the first row
Collect_ByArrival(i) ==
    /\ cpc = "collect"
    /\ pc[i] = "finished"
    /\ i \notin collected
    /\ collected' = collected \cup {i}
    /\ processed_count' = processed_count + 1
    /\ IF future[i].kind = "result"
       THEN /\ custom_found' = IF future[i].custom_used
                               THEN custom_found + 1 ELSE custom_found
            /\ final_image' = paste(final_image, future[i].img,
                                    <<processed_count * TILE_SIZE, 0>>)
       ELSE UNCHANGED <<custom_found, final_image>>
    /\ UNCHANGED <<bbox, zoom, cpc, tiles, submitted, saves, unitVars, calls>>

\* Collect with final_image.save inside the loop body: the canvas is saved
\* after every result
Collect_AndSave(i) ==
    /\ cpc = "collect"
    /\ pc[i] = "finished"
    /\ i \notin collected
    /\ collected' = collected \cup {i}
    /\ processed_count' = processed_count + 1
    /\ saves' = saves + 1
    /\ IF future[i].kind = "result"
       THEN /\ custom_found' = IF future[i].custom_used
                               THEN custom_found + 1 ELSE custom_found
            /\ final_image' = paste(final_image, future[i].img,
                                    paste_offset(future[i].x, future[i].y))
       ELSE UNCHANGED <<custom_found, final_image>>
    /\ UNCHANGED <<bbox, zoom, cpc, tiles, submitted, unitVars, calls>>

\* Collect with the except clause leaving the loop: the first failed unit
\* ends the collection and the canvas is saved as it is
Collect_BreakOnError(i) ==
    /\ cpc = "collect"
    /\ pc[i] = "finished"
    /\ i \notin collected
    /\ collected' = collected \cup {i}
    /\ processed_count' = processed_count + 1
    /\ IF future[i].kind = "result"
       THEN /\ custom_found' = IF future[i].custom_used
                               THEN custom_found + 1 ELSE custom_found
            /\ final_image' = paste(final_image, future[i].img,
                                    paste_offset(future[i].x, future[i].y))
            /\ UNCHANGED <<cpc, saves>>
       ELSE /\ cpc' = "done"
            /\ saves' = saves + 1
            /\ UNCHANGED <<custom_found, final_image>>
    /\ UNCHANGED <<bbox, zoom, tiles, submitted, unitVars, calls>>

\* main.py:171-181: as_completed yields a finished future; its result is
\* counted and pasted, or its exception is caught and printed
Collect(i) ==
    /\ cpc = "collect"
    /\ pc[i] = "finished"
    /\ i \notin collected
    /\ collected' = collected \cup {i}
    /\ processed_count' = processed_count + 1
    /\ IF future[i].kind = "result"
       THEN /\ custom_found' = IF future[i].custom_used
                               THEN custom_found + 1 ELSE custom_found
            /\ final_image' = paste(final_image, future[i].img,
                                    paste_offset(future[i].x, future[i].y))
       ELSE UNCHANGED <<custom_found, final_image>>
    /\ UNCHANGED <<bbox, zoom, cpc, tiles, submitted, saves, unitVars, calls>>

\* Save without waiting for the futures still running
Save_NoWait ==
    /\ cpc = "collect"
    /\ saves' = saves + 1
    /\ cpc' = "done"
    /\ UNCHANGED <<bbox, zoom, tiles, final_image, custom_found,
                   processed_count, submitted, collected, unitVars, calls>>

\* main.py:184-188: the loop and the pool are over, the canvas is saved
Save ==
    /\ cpc = "collect"
    /\ collected = Tasks
    /\ saves' = saves + 1
    /\ cpc' = "done"
    /\ UNCHANGED <<bbox, zoom, tiles, final_image, custom_found,
                   processed_count, submitted, collected, unitVars, calls>>

-----------------------------------------------------------------------------
(* Spec: one run of the program.                                           *)

\* <<min_lat, max_lat, min_lon, max_lon, zoom>> of the runs explored: one
\* tile at zoom 0, two tiles in a column (latitudes given in reverse, as in
\* main.py:121-124), three tiles in a row, and a box reaching the south pole
RunInputs ==
    { <<0, 0, 0, 0, 0>>,
      <<41, 0, 0, 0, 2>>,
      <<0, 0, -90, 45, 2>>,
      <<-90, 0, 0, 0, 1>> }

\* The cache directory before the run: empty, or holding the file of the
\* last tile of the run, left by an earlier run
SeedCaches(in) ==
    LET r == get_tiles_in_bbox(in[1], in[2], in[3], in[4], in[5])
        t == r.list[Len(r.list)]
    IN  IF r.list = << >> THEN {NoFiles}
        ELSE {NoFiles} \cup
             { [p \in {osm_cache_path(in[5], t[1], t[2])} |-> b] : b \in CachedBodies }

InitOf(inputs) ==
    /\ \E in \in inputs :
         /\ bbox = <<in[1], in[2], in[3], in[4]>>
         /\ zoom = in[5]
         /\ cache \in SeedCaches(in)
    /\ cpc = "start"
    /\ tiles = << >>
    /\ final_image = NoCanvas
    /\ custom_found = 0
    /\ processed_count = 0
    /\ submitted = 0
    /\ collected = {}
    /\ saves = 0
    /\ pc = << >>
    /\ resp = << >>
    /\ bg = << >>
    /\ future = << >>
    /\ osmGets = << >>
    /\ wpGets = << >>
    /\ calls = << >>

Init == InitOf(RunInputs)

Next ==
    \/ ComputeTiles
    \/ Allocate
    \/ Submit
    \/ Save
    \/ \E i \in Tasks : Start(i)
    \/ \E i \in Tasks : BgCacheHit(i)
    \/ \E i \in Tasks : BgCacheMiss(i)
    \/ \E i \in Tasks : BgGet200(i)
    \/ \E i \in Tasks : BgDecode(i)
    \/ \E i \in Tasks : BgGetFail(i)
    \/ \E i \in Tasks : BgWake(i)
    \/ \E i \in Tasks : AfterBackground(i)
    \/ \E i \in Tasks : OvGet200(i)
    \/ \E i \in Tasks : OvGetFail(i)
    \/ \E i \in Tasks : OvWake(i)
    \/ \E i \in Tasks : Collect(i)

Spec == Init /\ [][Next]_vars

-----------------------------------------------------------------------------
(* SpecLive: a run over two tiles, with the fairness the threads give:     *)
(* the main thread and every worker thread keep running, so a step that    *)
(* stays possible is taken (a sleep ends, a GET ends one way or another).  *)
(* Nothing is assumed about which way a GET ends.                          *)

LiveInputs == { <<41, 0, 0, 0, 2>> }
TaskIds == 1..3

UnitStep(i) ==
    /\ i \in Tasks
    /\ \/ Start(i) \/ BgCacheHit(i) \/ BgCacheMiss(i) \/ BgGet200(i)
       \/ BgDecode(i) \/ BgGetFail(i) \/ BgWake(i) \/ AfterBackground(i)
       \/ OvGet200(i) \/ OvGetFail(i) \/ OvWake(i)

CoordStep ==
    ComputeTiles \/ Allocate \/ Submit \/ Save \/ \E i \in Tasks : Collect(i)

Fairness == WF_vars(CoordStep) /\ \A i \in TaskIds : WF_vars(UnitStep(i))

SpecLive == InitOf(LiveInputs) /\ [][Next]_vars /\ Fairness

-----------------------------------------------------------------------------
(* SpecBBox: get_tiles_in_bbox and the canvas allocation on every bounding *)
(* box over Lats and Lons and every zoom up to MaxZoom.                    *)

InitBBox ==
    /\ bbox \in Lats \X Lats \X Lons \X Lons
    /\ zoom \in 0..MaxZoom
    /\ cache = NoFiles
    /\ cpc = "start"
    /\ tiles = << >>
    /\ final_image = NoCanvas
    /\ custom_found = 0
    /\ processed_count = 0
    /\ submitted = 0
    /\ collected = {}
    /\ saves = 0
    /\ pc = << >>
    /\ resp = << >>
    /\ bg = << >>
    /\ future = << >>
    /\ osmGets = << >>
    /\ wpGets = << >>
    /\ calls = << >>

NextBBox == ComputeTiles \/ Allocate

SpecBBox == InitBBox /\ [][NextBBox]_vars

-----------------------------------------------------------------------------
(* SpecFetch: one caller that calls get_tile_image MaxCalls times in       *)
(* sequence with the same url and cache_path.                              *)

\* the caller takes the outcome of the call and makes the next one
TestReturn(i) ==
    /\ cpc = "test"
    /\ pc[i] \in {"bg_returned", "bg_raised"}
    /\ calls' = Append(calls, [img |-> bg[i], status |-> resp[i].status,
                               gets |-> osmGets[i]])
    /\ pc' = [pc EXCEPT ![i] = IF Len(calls) + 1 < MaxCalls
                               THEN "bg_exists" ELSE "test_done"]
    /\ bg' = [bg EXCEPT ![i] = NoImage]
    /\ resp' = [resp EXCEPT ![i] = NoResp]
    /\ UNCHANGED <<bbox, zoom, coordVars, future, cache, osmGets, wpGets>>

InitFetch ==
    /\ bbox = <<0, 0, 0, 0>>
    /\ zoom \in 0..MaxZoom
    /\ \E x \in 0..1, y \in 0..1 :
         /\ x < Pow2(zoom) /\ y < Pow2(zoom)
         /\ tiles = << <<x, y>> >>
         /\ cache \in {NoFiles} \cup
                { [p \in {osm_cache_path(zoom, x, y)} |-> b] : b \in CachedBodies }
    /\ cpc = "test"
    /\ final_image = NoCanvas
    /\ custom_found = 0
    /\ processed_count = 0
    /\ submitted = 0
    /\ collected = {}
    /\ saves = 0
    /\ pc = << "bg_exists" >>
    /\ resp = << NoResp >>
    /\ bg = << NoImage >>
    /\ future = << Pending(1) >>
    /\ osmGets = << 0 >>
    /\ wpGets = << 0 >>
    /\ calls = << >>

NextFetch ==
    \/ \E i \in Tasks : BgCacheHit(i)
    \/ \E i \in Tasks : BgCacheMiss(i)
    \/ \E i \in Tasks : BgGet200(i)
    \/ \E i \in Tasks : BgDecode(i)
    \/ \E i \in Tasks : BgGetFail(i)
    \/ \E i \in Tasks : BgWake(i)
    \/ \E i \in Tasks : TestReturn(i)

SpecFetch == InitFetch /\ [][NextFetch]_vars

-----------------------------------------------------------------------------
(* Claims.                                                                 *)

\* a step in which task i leaves the cache check of get_tile_image with the
\* file present
HitStep(i) == pc[i] = "bg_exists" /\ exists(PathOf(i)) /\ pc'[i] # "bg_exists"

\* C1 (as stated): whenever the file exists when get_tile_image is called,
\* the call returns the decoded file, issues no GET and leaves the cache as
\* it is, whatever the file contains.
C1_Original ==
    [][\A i \in Tasks :
         HitStep(i) => /\ pc'[i] = "bg_returned"
                       /\ bg'[i].ok
                       /\ osmGets' = osmGets /\ wpGets' = wpGets
                       /\ cache' = cache]_vars

\* C1 (amended): whenever the file exists when get_tile_image is called, the
\* call ends in that step with what Image.open makes of the file's bytes (the
\* decoded image, returned; or, for bytes that are no image, Image.open's
\* error, raised), issues no GET and leaves every cache file as it is.
C1_CacheHit ==
    [][\A i \in Tasks :
         HitStep(i) =>
           /\ cache[PathOf(i)] # "junk" =>
                /\ pc'[i] = "bg_returned"
                /\ bg'[i].ok /\ bg'[i].data = cache[PathOf(i)]
           /\ cache[PathOf(i)] = "junk" => pc'[i] = "bg_raised" /\ ~bg'[i].ok
           /\ osmGets' = osmGets /\ wpGets' = wpGets
           /\ resp' = resp
           /\ cache' = cache]_vars

\* a task was served a stale file from the cache without any GET
C1_Witness ==
    \E i \in Tasks : /\ pc[i] = "bg_returned"
                     /\ osmGets[i] = 0
                     /\ bg[i].data = "osm_old"
                     /\ cache[PathOf(i)] = "osm_old"

\* the first of two calls found no file (it was answered by the server)
FirstCallMissed == Len(calls) >= 2 /\ calls[1].status = 200

\* C2 (as stated): two calls in sequence for the same key from an empty
\* cache perform exactly one network call in total; the second is served
\* from disk with the content of the first.
C2_Original ==
    FirstCallMissed => /\ calls[2].gets = 1
                       /\ calls[2].img = calls[1].img

\* C2 (amended): two calls in sequence for the same key from an empty cache:
\* every GET is issued by the first call (at least one, and the call ends on
\* the one answered 200); the second call issues none, is served from disk
\* and ends as the first did (the same image, or the same Image.open error).
C2_SecondCallFromDisk ==
    FirstCallMissed => /\ calls[1].gets >= 1
                       /\ calls[2].gets = calls[1].gets
                       /\ calls[2].status = NoResp.status
                       /\ calls[2].img = calls[1].img

\* the first call was retried and then answered 200, the second returned the
\* same image
C2_Witness ==
    /\ FirstCallMissed
    /\ calls[1].gets = 2
    /\ calls[1].img.ok
    /\ calls[2].img = calls[1].img

\* C3: in both fetchers a GET ends either with status 200, and the call then
\* goes on to return, or with 429, another status or a RequestException, and
\* the call then sleeps; after the sleep it issues another GET, however many
\* were issued before; a call that went to the server ends only after a 200.
C3_RetryRule ==
    [][\A i \in Tasks :
         /\ (pc[i] = "bg_get" /\ pc'[i] # "bg_get") =>
              \/ resp'[i].status = 200 /\ pc'[i] = "bg_decode"
              \/ resp'[i].status \in FailStatuses /\ pc'[i] = "bg_sleep"
         /\ (pc[i] = "bg_sleep" /\ pc'[i] # "bg_sleep") => pc'[i] = "bg_get"
         /\ (pc[i] \in {"bg_get", "bg_sleep", "bg_decode"}
               /\ pc'[i] \in {"bg_returned", "bg_raised"}) =>
              pc[i] = "bg_decode" /\ resp[i].status = 200
         /\ (pc[i] = "ov_get" /\ pc'[i] # "ov_get") =>
              \/ resp'[i].status = 200 /\ pc'[i] = "finished"
              \/ resp'[i].status \in FailStatuses /\ pc'[i] = "ov_sleep"
         /\ (pc[i] = "ov_sleep" /\ pc'[i] # "ov_sleep") => pc'[i] = "ov_get"]_vars

\* a unit whose background fetcher went to the server and returned, and
\* whose overlay fetcher has slept after a failed GET and is at the next one
C3_Witness ==
    \E i \in Tasks : /\ pc[i] = "ov_get"
                     /\ osmGets[i] >= 1
                     /\ wpGets[i] >= 1

\* C4: a cache file is created or changed only by a get_tile_image GET
\* answered 200, which writes exactly the response's bytes to the task's own
\* path and nothing else; the file holds those bytes before the body is
\* decoded and when the call returns.
C4_CacheWriteRule ==
    /\ [][cache' # cache =>
            \E i \in Tasks :
              /\ pc[i] = "bg_get" /\ pc'[i] = "bg_decode"
              /\ resp'[i].status = 200
              /\ DOMAIN cache' = DOMAIN cache \cup {PathOf(i)}
              /\ cache'[PathOf(i)] = resp'[i].content
              /\ \A p \in DOMAIN cache \ {PathOf(i)} : cache'[p] = cache[p]]_vars
    /\ [](\A i \in Tasks :
            (pc[i] \in {"bg_decode", "bg_returned", "bg_raised"}
               /\ resp[i].status = 200) =>
              exists(PathOf(i)) /\ cache[PathOf(i)] = resp[i].content)

\* the body of a 200 is in the cache file and is about to be decoded, while
\* another task, whose GET failed, sleeps and has no file
C4_Witness ==
    \E i, j \in Tasks : /\ pc[i] = "bg_decode"
                        /\ exists(PathOf(i))
                        /\ cache[PathOf(i)] = resp[i].content
                        /\ pc[j] = "bg_sleep"
                        /\ ~exists(PathOf(j))

\* the overlay fetch of task i has ended
OverlayFetched(i) == pc[i] = "finished" /\ resp[i].status = 200

\* C5: the overlay fetcher leaves the cache untouched and every overlay
\* fetch that ended issued at least one GET; the cache holds only
\* background files, and the tasks of a run have pairwise different paths.
C5_OverlayNeverCached ==
    /\ [][\A i \in Tasks :
            (pc[i] \in {"ov_get", "ov_sleep"} /\ pc'[i] # pc[i]) =>
              cache' = cache]_vars
    /\ [](/\ \A p \in DOMAIN cache : p[2] = "osm"
          /\ \A i \in Tasks : OverlayFetched(i) => wpGets[i] >= 1
          /\ \A i, j \in Tasks : PathOf(i) = PathOf(j) => i = j)

\* a finished run in which overlays were fetched and backgrounds cached
C5_Witness ==
    /\ cpc = "done"
    /\ Len(tiles) = 3
    /\ \A i \in Tasks : OverlayFetched(i) /\ exists(PathOf(i))

\* what line 148 left: the list, or the uncaught ValueError
Computed == [raised |-> cpc = "crashed", list |-> tiles]

\* C6: get_tiles_in_bbox gives the same outcome (the same list, or the same
\* ValueError) with the two latitudes swapped, with the two longitudes
\* swapped, and with both swapped.
C6_OrderInvariant ==
    cpc # "start" =>
      /\ Computed = get_tiles_in_bbox(bbox[2], bbox[1], bbox[3], bbox[4], zoom)
      /\ Computed = get_tiles_in_bbox(bbox[1], bbox[2], bbox[4], bbox[3], zoom)
      /\ Computed = get_tiles_in_bbox(bbox[2], bbox[1], bbox[4], bbox[3], zoom)

\* a box given with both pairs in reverse order, covering several tiles
C6_Witness ==
    /\ cpc = "computed"
    /\ bbox[1] > bbox[2] /\ bbox[3] > bbox[4]
    /\ Len(tiles) >= 4

\* the list is a non-empty full rectangle inside the grid, each tile once
FullRectangle(list, z) ==
    /\ list # << >>
    /\ \A k \in DOMAIN list :
         /\ list[k][1] \in 0..(Pow2(z) - 1)
         /\ list[k][2] \in 0..(Pow2(z) - 1)
    /\ \A k, l \in DOMAIN list : list[k] = list[l] => k = l
    /\ LET xs == { list[k][1] : k \in DOMAIN list }
           ys == { list[k][2] : k \in DOMAIN list }
       IN  /\ { list[k] : k \in DOMAIN list } =
                (MinOf(xs)..MaxOf(xs)) \X (MinOf(ys)..MaxOf(ys))

\* C7 (as stated): for every bounding box and zoom get_tiles_in_bbox returns
\* a non-empty full rectangle of tiles inside [0, 2^zoom - 1], no tile twice;
\* at zoom 0 the list is <<(0,0)>> and the canvas is TILE_SIZE by TILE_SIZE.
C7_Original ==
    cpc # "start" =>
      /\ cpc # "crashed"
      /\ FullRectangle(tiles, zoom)
      /\ zoom = 0 => tiles = << <<0, 0>> >>
      /\ (zoom = 0 /\ cpc = "dispatch") =>
            final_image.size = <<TILE_SIZE, TILE_SIZE>>

\* the origin of the tile range: <<minX, minY>>
RangeOrigin ==
    <<MinOf({ tiles[k][1] : k \in DOMAIN tiles }),
      MinOf({ tiles[k][2] : k \in DOMAIN tiles })>>

\* the corner ((x-minX)*TILE_SIZE, (y-minY)*TILE_SIZE) of task i's rectangle
Corner(i, origin) ==
    <<(tiles[i][1] - origin[1]) * TILE_SIZE, (tiles[i][2] - origin[2]) * TILE_SIZE>>

\* two TILE_SIZE squares with corners a and b share no pixel
Disjoint(a, b) ==
    \/ a[1] + TILE_SIZE <= b[1] \/ b[1] + TILE_SIZE <= a[1]
    \/ a[2] + TILE_SIZE <= b[2] \/ b[2] + TILE_SIZE <= a[2]

\* the tasks whose result the collection loop has pasted
Pasted == { i \in collected : future[i].kind = "result" }

\* C8: once the canvas is allocated its size is (maxX-minX+1)*TILE_SIZE by
\* (maxY-minY+1)*TILE_SIZE; the rectangles of the tiles at
\* ((x-minX)*TILE_SIZE, (y-minY)*TILE_SIZE) lie inside the canvas and are
\* pairwise disjoint; every paste made so far put a TILE_SIZE square at the
\* rectangle of its own tile, and no rectangle was pasted twice.
C8_CanvasCoverage ==
    cpc \in {"dispatch", "collect", "done"} =>
      LET o == RangeOrigin
          w == (MaxOf({ tiles[k][1] : k \in DOMAIN tiles }) - o[1] + 1) * TILE_SIZE
          h == (MaxOf({ tiles[k][2] : k \in DOMAIN tiles }) - o[2] + 1) * TILE_SIZE
          at == [i \in Tasks |-> Corner(i, o)]
      IN  /\ final_image.size = <<w, h>>
          /\ \A i \in Tasks :
               /\ at[i][1] >= 0 /\ at[i][2] >= 0
               /\ at[i][1] + TILE_SIZE <= w
               /\ at[i][2] + TILE_SIZE <= h
          /\ \A i, j \in Tasks : i # j => Disjoint(at[i], at[j])
          /\ DOMAIN final_image.px = { at[i] : i \in Pasted }
          /\ \A i \in Pasted :
               /\ final_image.px[at[i]] = future[i].img
               /\ future[i].img.size = TILE_SIZE
          /\ Cardinality(DOMAIN final_image.px) = Cardinality(Pasted)

\* a finished run that pasted three tiles
C8_Witness ==
    /\ cpc = "done"
    /\ Cardinality(Pasted) = 3
    /\ Cardinality(DOMAIN final_image.px) = 3

\* C9: an exception of a unit is caught by the collection loop: the run goes
\* on, that tile's rectangle is not pasted and the unit is not counted in
\* custom_found; custom_found is the number of pasted tiles flagged
\* custom_used, processed_count the number of futures observed; the save is
\* possible as soon as every submitted unit has been observed, and the run
\* is done only then.
C9_FailureIsolation ==
    /\ collected # {} => cpc \in {"collect", "done"}
    /\ cpc \in {"collect", "done"} =>
      /\ \A i \in collected \ Pasted :
           /\ future[i].kind = "exception"
           /\ Corner(i, RangeOrigin) \notin DOMAIN final_image.px
      /\ custom_found = Cardinality({ i \in Pasted : future[i].custom_used })
      /\ processed_count = Cardinality(collected)
      /\ (cpc = "collect" /\ collected = Tasks) => ENABLED Save
      /\ cpc = "done" => collected = Tasks /\ processed_count = Len(tiles)

\* a finished run in which one unit raised and another was pasted and counted
C9_Witness ==
    /\ cpc = "done"
    /\ \E i \in Tasks : future[i].kind = "exception"
    /\ \E j \in Pasted : future[j].custom_used
    /\ custom_found >= 1

\* the positions of the two retry loops
Retrying == {"bg_get", "bg_sleep", "ov_get", "ov_sleep"}
RetriesForever(i) == <>[](i \in Tasks /\ pc[i] \in Retrying)
Blank(i) == Corner(i, RangeOrigin) \notin DOMAIN final_image.px

\* C10 (as stated): when the fetch of one tile fails for ever (its server
\* always errors), the run still completes and the image is saved.
C10_Original ==
    \A i \in TaskIds : RetriesForever(i) => <>(cpc = "done" /\ saves = 1)

\* C10 (amended): when a unit fails by raising (a 200 body or a cached file
\* that is no image), the run still completes: once every unit has ended the
\* image is saved, once, the tile of the unit that raised keeps the initial
\* fill, custom_found leaves it out and the process ends normally. While a
\* tile's server keeps erroring, its fetcher is in the retry loop and the
\* run is not done and nothing is saved.
C10_FailedTileScenario ==
    /\ [](cpc = "done" =>
            /\ saves = 1
            /\ \A i \in Tasks :
                 /\ pc[i] = "finished" /\ i \in collected
                 /\ future[i].kind = "exception" =>
                      Blank(i) /\ i \notin Pasted
            /\ custom_found = Cardinality({ i \in Pasted : future[i].custom_used }))
    /\ [](\A i \in Tasks : pc[i] \in Retrying => cpc # "done" /\ saves = 0)
    /\ (cpc = "collect" /\ \A i \in Tasks : pc[i] = "finished") ~> (cpc = "done")

\* a finished, saved run in which the background server sent a 200 that is
\* no image for one tile, while the other tile was pasted
C10_Witness ==
    /\ cpc = "done" /\ saves = 1
    /\ \E i \in Tasks : /\ future[i].kind = "exception"
                        /\ osmGets[i] >= 1
                        /\ cache[PathOf(i)] = "junk"
                        /\ Blank(i)
    /\ Cardinality(Pasted) = 1

-----------------------------------------------------------------------------
(* C11 concerns the branch of main.py:151-152 (Allocate with an empty     *)
(* list). get_tiles_in_bbox returns a list only with clamped bounds        *)
(* start <= end, so the list handed to that branch is never empty.         *)

TilesNeverEmpty == cpc \in {"computed", "aborted"} => tiles # << >>

\* overlay bodies whose image has an alpha channel (RGBA, LA) or is a
\* palette image with a transparency entry
AlphaBodies == {"wp_rgba", "wp_la", "wp_p_trns"}

\* the units that have returned a tuple from process_and_composite_tile
Returned == { i \in Tasks : pc[i] = "finished" /\ future[i].kind = "result" }

\* C12: the flag returned by process_and_composite_tile is true exactly
\* when the overlay it fetched has mode RGBA or LA or is a palette image
\* with transparency; whatever the flag, the overlay is composited over the
\* background, at the tile size.
C12_OverlayFlag ==
    \A i \in Returned :
        /\ future[i].custom_used <=> resp[i].content \in AlphaBodies
        /\ future[i].img.over = resp[i].content
        /\ future[i].img.size = TILE_SIZE

\* one unit returned a palette overlay without transparency, flag false,
\* composited all the same; another a palette overlay with it, flag true
C12_Witness ==
    \E i, j \in Returned :
        /\ resp[i].content = "wp_p" /\ ~future[i].custom_used
        /\ future[i].img.over = "wp_p"
        /\ resp[j].content = "wp_p_trns" /\ future[j].custom_used

\* the units inside process_and_composite_tile, counted from the program
\* counters alone
Executing ==
    { i \in Tasks : pc[i] \in {"bg_exists", "bg_get", "bg_sleep", "bg_decode",
                               "bg_returned", "bg_raised", "ov_get",
                               "ov_sleep"} }

\* C13: one unit of work is submitted per tile of the range (the units
\* submitted so far are those of the first tiles of the list, each once,
\* and all of them once the collection loop runs), and at every moment at
\* most MAX_WORKERS units are executing, the others waiting in the queue.
C13_BoundedPool ==
    cpc \in {"dispatch", "collect", "done"} =>
        /\ Tasks = DOMAIN tiles
        /\ \A i, j \in Tasks : tiles[i] = tiles[j] => i = j
        /\ { i \in Tasks : pc[i] # "new" } = 1..submitted
        /\ cpc \in {"collect", "done"} => submitted = Len(tiles)
        /\ Cardinality(Executing) <= MAX_WORKERS

\* every worker is busy and a submitted unit waits for a free one
C13_Witness ==
    /\ cpc = "collect"
    /\ Cardinality(Executing) = MAX_WORKERS
    /\ \E i \in Tasks : pc[i] = "queued"

\* a step that writes the canvas or one of the two counters
CanvasStep ==
    \/ final_image' # final_image
    \/ custom_found' # custom_found
    \/ processed_count' # processed_count

\* C14: the canvas and the counters are written only by the coordinator:
\* by the allocation, before any unit exists, and by the collection loop,
\* one finished unit per step, taken once, while no worker moves; a tile is
\* on the canvas only if its unit has completed and has been collected.
C14_SequentialWrites ==
    [][CanvasStep =>
         \/ cpc = "computed" /\ Tasks = {}
         \/ /\ cpc = "collect"
            /\ UNCHANGED unitVars
            /\ \E i \in Tasks :
                 /\ pc[i] = "finished"
                 /\ i \notin collected
                 /\ collected' = collected \cup {i}
                 /\ DOMAIN final_image'.px \subseteq
                      DOMAIN final_image.px
                        \cup {<<(TileX(i) - min_x) * TILE_SIZE,
                                (TileY(i) - min_y) * TILE_SIZE>>}]_vars

\* a tile has been written while another unit is still executing
C14_Witness ==
    /\ DOMAIN final_image.px # {}
    /\ \E i \in collected : future[i].kind = "result"
    /\ Executing # {}

\* the canvas and the counter that the results of a set S of units
\* determine, whatever the order they came in
CanvasOf(S) ==
    LET R == { i \in S : future[i].kind = "result" }
        o == RangeOrigin
    IN  [c \in { Corner(i, o) : i \in R } |->
            future[CHOOSE i \in R : Corner(i, o) = c].img]
FoundOf(S) ==
    Cardinality({ i \in S : future[i].kind = "result" /\ future[i].custom_used })

\* C15: the canvas and the overlay-found counter depend only on the results
\* of the units collected, never on the order in which the units completed
\* and were collected: after any collection sequence they are the canvas
\* and the count that the set of collected results determines, and so are
\* the saved canvas and the final count.
C15_OrderIndependence ==
    cpc \in {"collect", "done"} =>
        /\ final_image.px = CanvasOf(collected)
        /\ custom_found = FoundOf(collected)
        /\ cpc = "done" =>
              /\ final_image.px = CanvasOf(Tasks)
              /\ custom_found = FoundOf(Tasks)

\* a run saved after three units with three different results, of which
\* some carried overlay content and some did not
C15_SavedThree ==
    /\ cpc = "done"
    /\ Cardinality({ future[i].img.over : i \in Pasted }) = 3
    /\ custom_found \in 1..2

\* the last unit of the list was collected before the first one completed
C15_Witness ==
    /\ cpc = "collect"
    /\ Len(tiles) \in collected /\ future[Len(tiles)].kind = "result"
    /\ pc[1] # "finished"

\* C16 (states): no unit is submitted before the canvas is allocated; the
\* canvas has been saved at most once, and once exactly when the run is
\* done; when it is saved every unit of the list has been submitted, has
\* ended and has been taken by the collection loop.
C16_States ==
    /\ submitted > 0 \/ Tasks # {} => final_image # NoCanvas
    /\ saves <= 1
    /\ saves = 1 <=> cpc = "done"
    /\ cpc = "done" =>
          /\ submitted = Len(tiles)
          /\ collected = Tasks
          /\ \A i \in Tasks : pc[i] = "finished"

\* C16 (steps): the canvas is allocated in one step, before any submit;
\* the save leaves the canvas as the loop made it; after the save nothing
\* writes the canvas and nothing saves again.
C16_Steps ==
    /\ final_image'.size # final_image.size =>
          cpc = "computed" /\ final_image = NoCanvas /\ submitted = 0
    /\ saves' # saves =>
          /\ saves' = saves + 1
          /\ collected = Tasks
          /\ final_image' = final_image
    /\ saves > 0 => final_image' = final_image /\ saves' = saves

\* C16: the canvas is allocated once, before any unit is dispatched, and is
\* saved exactly once by a run that ends, only after the collection loop
\* has taken every submitted unit, whether it succeeded or failed; no
\* canvas write follows the save.
C16_AllocateOnceSaveOnce == []C16_States /\ [][C16_Steps]_vars

\* a run saved after its loop took a failed unit and a successful one
C16_Witness ==
    /\ cpc = "done" /\ saves = 1
    /\ \E i, j \in collected :
         future[i].kind = "exception" /\ future[j].kind = "result"

\* the servers of unit i answer 200 in the end: the unit is not for ever in
\* a retry loop
Served(i) == ~RetriesForever(i)

\* C17 (as stated): if both servers answer 200 in the end for every tile,
\* then under fair scheduling every unit completes, every tile of the range
\* is written to the canvas, and the run is done and has saved the image.
C17_Original ==
    (\A i \in TaskIds : Served(i)) =>
        <>(/\ cpc = "done" /\ saves = 1
           /\ \A i \in Tasks : pc[i] = "finished" /\ ~Blank(i))

\* C17 (amended): if both servers answer 200 in the end for every tile,
\* then under fair scheduling every unit ends, by returning its tile or by
\* raising on a 200 body or a cached file that is no image; the loop takes
\* every unit, the tile of every unit that returned is written to the
\* canvas, only the tiles of the units that raised are not, and the run is
\* done and has saved the image.
C17_EventualCompletion ==
    (\A i \in TaskIds : Served(i)) =>
        <>(/\ cpc = "done" /\ saves = 1
           /\ \A i \in Tasks :
                /\ pc[i] = "finished" /\ i \in collected
                /\ future[i].kind = "result" => ~Blank(i)
                /\ Blank(i) => future[i].kind = "exception")

\* a saved run with every tile written, one of them after two GETs to each
\* server: the first of each failed and the retry was answered 200
C17_Witness ==
    /\ cpc = "done" /\ saves = 1
    /\ \A i \in Tasks : ~Blank(i)
    /\ \E i \in Tasks : osmGets[i] = 2 /\ wpGets[i] = 2

\* C18: a unit in the retry loop of a fetcher leaves the loop only by a GET
\* answered 200: a GET that fails or times out (status 0) is followed by
\* the sleep and another GET; as long as the unit is in the loop it holds
\* its worker, is not taken by the collection loop, and the run neither
\* ends nor saves. So a unit whose server never answers 200 never
\* completes.
C18_NoCancellation ==
    [][\A i \in Tasks : pc[i] \in Retrying =>
         /\ pc'[i] \notin Retrying => resp'[i].status = 200
         /\ resp'[i].status \in FailStatuses => pc'[i] \in {"bg_sleep", "ov_sleep"}
         /\ pc[i] = "bg_sleep" /\ pc'[i] # "bg_sleep" => pc'[i] = "bg_get"
         /\ pc[i] = "ov_sleep" /\ pc'[i] # "ov_sleep" => pc'[i] = "ov_get"
         /\ i \in Executing /\ i \notin collected'
         /\ cpc' # "done" /\ saves' = 0]_vars

\* every worker is held by a unit that sleeps after a failed GET, one of
\* them after a timeout, while a submitted unit waits for a worker
C18_Witness ==
    /\ Cardinality(Executing) = MAX_WORKERS
    /\ \A i \in Executing : pc[i] \in {"bg_sleep", "ov_sleep"}
    /\ \E i \in Executing : resp[i].status = 0
    /\ \E j \in Tasks : pc[j] = "queued"

\* the cache path that unit i derives, from the tile of its task
UnitPath(i) == <<zoom, "osm", tiles[i][1], tiles[i][2]>>

\* C19: the units of a run derive pairwise different cache paths, each the
\* path of its own tile; a step that changes the cache directory is the
\* write of one unit, in get_tile_image after a GET answered 200, creating
\* the file of that unit's own path, which did not exist, and leaving every
\* other file as it was. So no file is written by two units, none is
\* written twice, and the file a unit finds or misses at its path is never
\* one that another unit of the run writes.
C19_States ==
    \A i, j \in Tasks :
        /\ PathOf(i) = UnitPath(i)
        /\ i # j => PathOf(i) # PathOf(j)
C19_Steps ==
    cache' # cache =>
        \E i \in Tasks :
            /\ pc[i] = "bg_get" /\ pc'[i] = "bg_decode"
            /\ \A j \in Tasks \ {i} : pc'[j] = pc[j]
            /\ UnitPath(i) \notin DOMAIN cache
            /\ DOMAIN cache' = DOMAIN cache \cup {UnitPath(i)}
            /\ \A q \in DOMAIN cache : cache'[q] = cache[q]
C19_CachePartition == []C19_States /\ [][C19_Steps]_vars

\* one unit has just written its file while another, past its own cache
\* check, is about to download the file of its own path
C19_Witness ==
    \E i, j \in Tasks :
        /\ i # j
        /\ pc[i] = "bg_decode" /\ exists(UnitPath(i))
        /\ pc[j] = "bg_get" /\ ~exists(UnitPath(j))

\* the bodies that are images
Bitmaps == (OsmBodies \cup CachedBodies \cup WpBodies) \ {"junk"}

\* C20: what get_tile_image returns is a decoded bitmap, never None, so the
\* background a unit works on is never the gray placeholder; what
\* get_tile_image_no_cache returns is a decoded bitmap too, so every tuple
\* a unit returns, and every tile the coordinator pastes, carries an
\* overlay composited over a fetched background.
C20_NeverAbsent ==
    \A i \in Tasks :
        /\ pc[i] = "bg_returned" =>
              bg[i] # NoImage /\ bg[i].ok /\ bg[i].data \in Bitmaps
        /\ pc[i] \in {"ov_get", "ov_sleep"} =>
              bg[i].ok /\ bg[i].data \in Bitmaps /\ bg[i].size = TILE_SIZE
        /\ future[i].kind = "result" =>
              /\ future[i].img.base \in Bitmaps
              /\ future[i].img.over \in WpBodies \ {"junk"}
              /\ resp[i].status = 200
        /\ \A o \in DOMAIN final_image.px :
              /\ final_image.px[o].base \in Bitmaps
              /\ final_image.px[o].over \in WpBodies \ {"junk"}

\* a pasted tile whose background and overlay each came with the 200 that
\* followed a failed GET
C20_Witness ==
    \E i \in Pasted :
        /\ osmGets[i] = 2 /\ wpGets[i] = 2
        /\ future[i].img.base = "osm_new"
        /\ future[i].img.over \in WpBodies \ {"junk"}

====
